---- MODULE Spec2Model ----
(***************************************************************************)
(* A model of the MultiStash data structure of src/src/lib.rs: a vector   *)
(* of entries, each Vacant (a link of the free list) or Occupied (an item *)
(* with a non-zero remaining count), a free cursor and two counters.      *)
(*                                                                         *)
(* Every method is an operator from the stash before the call (a record   *)
(* with the four fields of the struct) to the stash after it and the      *)
(* value returned; a panic is the return kind "Panic" and the stash is    *)
(* the one the panicking statement leaves behind.                         *)
(***************************************************************************)
EXTENDS Integers, Sequences, FiniteSets, TLC

\* Largest number of entries the table grows to.
MaxEntries == 3

\* usize::MAX, scaled down: usize arithmetic is modulo UsizeMax + 1.
UsizeMax == 3

\* The values of the element type T.
Items == {"A", "B"}

NoItem == "-"
NoKey == 0 - 1
Overflow == 0 - 1

Keys == 0 .. MaxEntries
Amounts == 1 .. UsizeMax
Deltas == 0 .. UsizeMax

VARIABLES
    entries,          \* MultiStash::entries
    free,             \* MultiStash::free
    len_items,        \* MultiStash::len_items
    len_occupied,     \* MultiStash::len_occupied
    overflow_checks,  \* build profile: TRUE when `+=`/`-=` panic on overflow
    aborted,          \* TRUE once a call has panicked
    vacated,          \* observer: slots vacated and not reused, newest first
    scen,             \* observer: what the calls of the scenario returned
    iter,             \* the iterator borrowing the stash, NoIter when none
    yielded,          \* observer: the keys the iterator has yielded
    fused,            \* observer: TRUE once the iterator has returned None
    peak              \* observer: most entries occupied at once since the
                      \* last reset

vars == <<entries, free, len_items, len_occupied, overflow_checks,
          aborted, vacated, scen, iter, yielded, fused, peak>>

----------------------------------------------------------------------------
\* Entries (src/src/entry.rs)

VacantEntry(next_free) == [tag |-> "Vacant", next_free |-> next_free]

OccupiedEntry(item, amount) ==
    [tag |-> "Occupied", remaining |-> amount, item |-> item]

\* entries[index] of the zero-based Vec.
At(es, index) == es[index + 1]

IsOccupied(es, index) ==
    /\ index >= 0
    /\ index < Len(es)
    /\ At(es, index).tag = "Occupied"

IsVacant(es, index) ==
    /\ index >= 0
    /\ index < Len(es)
    /\ At(es, index).tag = "Vacant"

----------------------------------------------------------------------------
\* Return values

NoneRet == [kind |-> "None", n |-> 0, item |-> NoItem]
SomeRet(n, item) == [kind |-> "Some", n |-> n, item |-> item]
KeyRet(index) == [kind |-> "Key", n |-> index, item |-> NoItem]
UnitRet == [kind |-> "Unit", n |-> 0, item |-> NoItem]
PanicRet == [kind |-> "Panic", n |-> 0, item |-> NoItem]

----------------------------------------------------------------------------
\* usize arithmetic

\* checked_add: Overflow stands for None.
checked_add(a, b) == IF a + b > UsizeMax THEN Overflow ELSE a + b

\* `a -= b` on usize: panics with overflow checks, wraps without them.
usize_sub(a, b) ==
    IF a >= b THEN a - b
    ELSE IF overflow_checks THEN Overflow
    ELSE (a - b + UsizeMax + 1) % (UsizeMax + 1)

\* `a += b` on usize: panics with overflow checks, wraps without them.
usize_add(a, b) ==
    IF a + b <= UsizeMax THEN a + b
    ELSE IF overflow_checks THEN Overflow
    ELSE (a + b) % (UsizeMax + 1)

----------------------------------------------------------------------------
\* The methods of MultiStash (src/src/lib.rs)

new == [free |-> 0, len_items |-> 0, len_occupied |-> 0, entries |-> <<>>]

len_entries(s) == Len(s.entries)

len(s) == s.len_occupied

is_empty(s) == s.len_occupied = 0

get(s, key) ==
    IF IsOccupied(s.entries, key)
    THEN SomeRet(At(s.entries, key).remaining, At(s.entries, key).item)
    ELSE NoneRet

\* get_mut handing out the whole entry: the caller's write resets the count.
get_mut_whole_entry(s, key, w) ==
    IF IsOccupied(s.entries, key)
    THEN [self |-> [s EXCEPT !.entries[key + 1] = OccupiedEntry(w, 1)],
          ret |-> SomeRet(At(s.entries, key).remaining,
                          At(s.entries, key).item)]
    ELSE [self |-> s, ret |-> NoneRet]

\* get_mut hands out &mut item; w is what the caller leaves in it.
get_mut(s, key, w) ==
    IF IsOccupied(s.entries, key)
    THEN [self |-> [s EXCEPT !.entries[key + 1].item = w],
          ret |-> SomeRet(At(s.entries, key).remaining,
                          At(s.entries, key).item)]
    ELSE [self |-> s, ret |-> NoneRet]

\* clear with len_occupied left as it was.
clear_keeps_len_occupied(s) ==
    [s EXCEPT !.free = 0, !.len_items = 0, !.entries = <<>>]

\* clear with the free cursor left as it was.
clear_keeps_free(s) ==
    [s EXCEPT !.len_items = 0, !.len_occupied = 0, !.entries = <<>>]

clear(s) ==
    [s EXCEPT !.free = 0, !.len_items = 0, !.len_occupied = 0,
              !.entries = <<>>]

\* claim_slot with the free cursor left where it was when a slot is reused.
claim_slot_keeps_free(s, amount, item) ==
    LET occ == OccupiedEntry(item, amount)
    IN  IF s.free = len_entries(s)
        THEN [self |-> [s EXCEPT !.entries = Append(@, occ),
                                 !.free = s.free + 1],
              ret |-> KeyRet(s.free)]
        ELSE IF s.free > len_entries(s)
        THEN [self |-> s, ret |-> PanicRet]
        ELSE IF At(s.entries, s.free).tag # "Vacant"
        THEN [self |-> [s EXCEPT !.entries[s.free + 1] = occ],
              ret |-> PanicRet]
        ELSE [self |-> [s EXCEPT !.entries[s.free + 1] = occ],
              ret |-> KeyRet(s.free)]

\* claim_slot that appends whatever the free cursor says.
claim_slot_always_appends(s, amount, item) ==
    [self |-> [s EXCEPT !.entries = Append(@, OccupiedEntry(item, amount)),
                        !.free = IF s.free = len_entries(s) THEN @ + 1 ELSE @],
     ret |-> KeyRet(len_entries(s))]

\* The first half of put: the slot is claimed and the free cursor moves
\* (the item is stored before any counter is touched).
claim_slot(s, amount, item) ==
    LET key == s.free
        occ == OccupiedEntry(item, amount)
    IN  IF s.free = len_entries(s)
        THEN LET s1 == [s EXCEPT !.entries = Append(@, occ)]
                 free1 == checked_add(s.free, 1)
             IN  IF free1 = Overflow THEN [self |-> s1, ret |-> PanicRet]
                 ELSE [self |-> [s1 EXCEPT !.free = free1],
                       ret |-> KeyRet(key)]
        ELSE IF s.free > len_entries(s)
        THEN \* get_unchecked_mut out of bounds
             [self |-> s, ret |-> PanicRet]
        ELSE LET cell == At(s.entries, s.free)
                 s1 == [s EXCEPT !.entries[s.free + 1] = occ]
             IN  IF cell.tag # "Vacant"
                 THEN \* unreachable!()
                      [self |-> s1, ret |-> PanicRet]
                 ELSE [self |-> [s1 EXCEPT !.free = cell.next_free],
                       ret |-> KeyRet(key)]

\* put with the total raised by `+=` instead of checked_add.
put_unchecked_total(s, amount, item) ==
    LET claimed == claim_slot(s, amount, item)
        s2 == claimed.self
        items1 == usize_add(s2.len_items, amount)
    IN  IF claimed.ret = PanicRet THEN claimed
        ELSE IF items1 = Overflow THEN [self |-> s2, ret |-> PanicRet]
        ELSE [self |-> [s2 EXCEPT !.len_items = items1,
                                  !.len_occupied = @ + 1],
              ret |-> claimed.ret]

\* put with the total raised by one item instead of by the amount.
put_counts_one(s, amount, item) ==
    LET claimed == claim_slot(s, amount, item)
        s2 == claimed.self
        items1 == checked_add(s2.len_items, 1)
    IN  IF claimed.ret = PanicRet THEN claimed
        ELSE IF items1 = Overflow THEN [self |-> s2, ret |-> PanicRet]
        ELSE [self |-> [s2 EXCEPT !.len_items = items1,
                                  !.len_occupied = @ + 1],
              ret |-> claimed.ret]

put(s, amount, item) ==
    LET claimed == claim_slot(s, amount, item)
        s2 == claimed.self
        items1 == checked_add(s2.len_items, amount)
        s3 == [s2 EXCEPT !.len_items = items1]
        occ1 == usize_add(s3.len_occupied, 1)
    IN  IF claimed.ret = PanicRet THEN claimed
        ELSE IF items1 = Overflow THEN [self |-> s2, ret |-> PanicRet]
        ELSE IF occ1 = Overflow THEN [self |-> s3, ret |-> PanicRet]
        ELSE [self |-> [s3 EXCEPT !.len_occupied = occ1],
              ret |-> claimed.ret]

\* replace_entry with the vacated slot linked to the end of the table instead
\* of to the free cursor.
replace_entry_unlinked(s, index) ==
    [s EXCEPT !.entries[index + 1] = VacantEntry(len_entries(s))]

\* mem::replace(entry, Entry::from(VacantEntry::new(self.free))) of both take
\* methods.
replace_entry(s, index) ==
    [s EXCEPT !.entries[index + 1] = VacantEntry(s.free)]

\* restore_vacant with the write-back left out.
restore_vacant_forgotten(replaced, index, vacant) ==
    [self |-> replaced, ret |-> NoneRet]

\* The Vacant arm of both take methods: the link is written back.
restore_vacant(replaced, index, vacant) ==
    [self |-> [replaced EXCEPT !.entries[index + 1] =
                   VacantEntry(vacant.next_free)],
     ret |-> NoneRet]

\* clear_if_empty with the reset left out.
clear_if_empty_skipped(taken) == taken

\* The trailing `if self.is_empty() { self.clear() }` of both take methods.
clear_if_empty(taken) ==
    IF taken.ret.kind = "Panic" THEN taken
    ELSE IF is_empty(taken.self)
    THEN [self |-> clear(taken.self), ret |-> taken.ret]
    ELSE taken

\* take_all with the free cursor moved to the vacated slot only when the
\* free list was empty.
take_all_keeps_head(s, key) ==
    LET index == key
        taken ==
          IF index >= len_entries(s) THEN [self |-> s, ret |-> NoneRet]
          ELSE
            LET entry == At(s.entries, index)
            IN  IF entry.tag = "Vacant" THEN [self |-> s, ret |-> NoneRet]
                ELSE
                  LET s1 == [replace_entry(s, index) EXCEPT !.free =
                                 IF @ = len_entries(s) THEN index ELSE @]
                      len_taken == entry.remaining
                      items1 == usize_sub(s1.len_items, len_taken)
                  IN  IF items1 = Overflow
                      THEN [self |-> s1, ret |-> PanicRet]
                      ELSE [self |-> [s1 EXCEPT !.len_items = items1,
                                                !.len_occupied = @ - 1],
                            ret |-> SomeRet(len_taken, entry.item)]
    IN  clear_if_empty(taken)

take_all(s, key) ==
    LET index == key
        taken ==
          IF index >= len_entries(s) THEN [self |-> s, ret |-> NoneRet]
          ELSE
            LET entry == At(s.entries, index)
                replaced == replace_entry(s, index)
            IN  IF entry.tag = "Vacant"
                THEN restore_vacant(replaced, index, entry)
                ELSE
                  LET s1 == [replaced EXCEPT !.free = index]
                      len_taken == entry.remaining
                      items1 == usize_sub(s1.len_items, len_taken)
                      s2 == [s1 EXCEPT !.len_items = items1]
                      occ1 == usize_sub(s2.len_occupied, 1)
                  IN  IF items1 = Overflow
                      THEN [self |-> s1, ret |-> PanicRet]
                      ELSE IF occ1 = Overflow
                      THEN [self |-> s2, ret |-> PanicRet]
                      ELSE [self |-> [s2 EXCEPT !.len_occupied = occ1],
                            ret |-> SomeRet(len_taken, entry.item)]
    IN  clear_if_empty(taken)

\* bump returning the new count instead of the old one.
bump_returns_new(s, key, amount) ==
    IF ~IsOccupied(s.entries, key) THEN [self |-> s, ret |-> NoneRet]
    ELSE LET new_amount == checked_add(At(s.entries, key).remaining, amount)
         IN  IF new_amount = Overflow THEN [self |-> s, ret |-> PanicRet]
             ELSE [self |-> [s EXCEPT !.entries[key + 1].remaining =
                                 new_amount],
                   ret |-> SomeRet(new_amount, NoItem)]

bump(s, key, amount) ==
    LET index == key
    IN  IF index >= len_entries(s) THEN [self |-> s, ret |-> NoneRet]
        ELSE
          LET entry == At(s.entries, index)
          IN  IF entry.tag = "Vacant" THEN [self |-> s, ret |-> NoneRet]
              ELSE
                LET old_amount == entry.remaining
                    new_amount == checked_add(old_amount, amount)
                IN  IF new_amount = Overflow
                    THEN [self |-> s, ret |-> PanicRet]
                    ELSE [self |-> [s EXCEPT !.entries[index + 1].remaining =
                                        new_amount],
                          ret |-> SomeRet(old_amount, NoItem)]

\* take_one with the free cursor left where it was when the last item of a
\* slot is taken.
take_one_keeps_free(s, key) ==
    LET index == key
        taken ==
          IF index >= len_entries(s) THEN [self |-> s, ret |-> NoneRet]
          ELSE
            LET entry == At(s.entries, index)
                replaced == replace_entry(s, index)
            IN  IF entry.tag = "Vacant"
                THEN restore_vacant(replaced, index, entry)
                ELSE
                  LET items1 == usize_sub(replaced.len_items, 1)
                      s1 == [replaced EXCEPT !.len_items = items1]
                      remaining == entry.remaining - 1
                  IN  IF items1 = Overflow
                      THEN [self |-> replaced, ret |-> PanicRet]
                      ELSE IF remaining # 0
                      THEN [self |-> [s1 EXCEPT !.entries[index + 1] =
                                          OccupiedEntry(entry.item, remaining)],
                            ret |-> SomeRet(remaining, entry.item)]
                      ELSE [self |-> [s1 EXCEPT !.len_occupied = @ - 1],
                            ret |-> SomeRet(0, entry.item)]
    IN  clear_if_empty(taken)

take_one(s, key) ==
    LET index == key
        taken ==
          IF index >= len_entries(s) THEN [self |-> s, ret |-> NoneRet]
          ELSE
            LET entry == At(s.entries, index)
                replaced == replace_entry(s, index)
            IN  IF entry.tag = "Vacant"
                THEN restore_vacant(replaced, index, entry)
                ELSE
                  LET item == entry.item
                      items1 == usize_sub(replaced.len_items, 1)
                      s1 == [replaced EXCEPT !.len_items = items1]
                      \* wrapping_sub(1) of a non-zero count
                      remaining == entry.remaining - 1
                  IN  IF items1 = Overflow
                      THEN [self |-> replaced, ret |-> PanicRet]
                      ELSE IF remaining # 0
                      THEN [self |-> [s1 EXCEPT !.entries[index + 1] =
                                          OccupiedEntry(item, remaining)],
                            ret |-> SomeRet(remaining, item)]
                      ELSE
                        LET occ1 == usize_sub(s1.len_occupied, 1)
                        IN  IF occ1 = Overflow
                            THEN [self |-> s1, ret |-> PanicRet]
                            ELSE [self |-> [s1 EXCEPT !.len_occupied = occ1,
                                                      !.free = index],
                                  ret |-> SomeRet(0, item)]
    IN  clear_if_empty(taken)

----------------------------------------------------------------------------
\* The iterators (src/src/iter.rs). Iter, IterMut and IntoIter share one
\* body: a counter of the occupied entries left and an enumerating
\* double-ended walk over entries[lo .. hi - 1].

NoIter == [remaining |-> 0, lo |-> 0, hi |-> 0, live |-> FALSE]

\* What next and next_back return: Some((Key(index), remaining, item)).
YieldRet(index, n, item) ==
    [kind |-> "Some", key |-> index, n |-> n, item |-> item]
IterNone == [kind |-> "None", key |-> NoKey, n |-> 0, item |-> NoItem]
IterPanic == [kind |-> "Panic", key |-> NoKey, n |-> 0, item |-> NoItem]

iter_new(s) ==
    [remaining |-> s.len_occupied, lo |-> 0, hi |-> Len(s.entries),
     live |-> TRUE]

\* iter_next with Vacant entries yielded instead of skipped.
iter_next_yields_vacant(it, es) ==
    IF it.lo >= it.hi THEN [iter |-> it, ret |-> IterNone]
    ELSE LET index == it.lo
             entry == At(es, index)
             it1 == [it EXCEPT !.lo = @ + 1]
         IN  IF entry.tag = "Vacant"
             THEN [iter |-> it1, ret |-> YieldRet(index, 0, NoItem)]
             ELSE [iter |-> [it1 EXCEPT !.remaining =
                                 usize_sub(it1.remaining, 1)],
                   ret |-> YieldRet(index, entry.remaining, entry.item)]

RECURSIVE iter_next(_, _)
iter_next(it, es) ==
    IF it.lo >= it.hi THEN [iter |-> it, ret |-> IterNone]
    ELSE LET index == it.lo
             entry == At(es, index)
             it1 == [it EXCEPT !.lo = @ + 1]
             remaining1 == usize_sub(it1.remaining, 1)
         IN  IF entry.tag = "Vacant" THEN iter_next(it1, es)
             ELSE IF remaining1 = Overflow
             THEN [iter |-> it1, ret |-> IterPanic]
             ELSE [iter |-> [it1 EXCEPT !.remaining = remaining1],
                   ret |-> YieldRet(index, entry.remaining, entry.item)]

\* iter_next_back with the counter left as it was.
RECURSIVE iter_next_back_keeps_count(_, _)
iter_next_back_keeps_count(it, es) ==
    IF it.lo >= it.hi THEN [iter |-> it, ret |-> IterNone]
    ELSE LET index == it.hi - 1
             entry == At(es, index)
             it1 == [it EXCEPT !.hi = @ - 1]
         IN  IF entry.tag = "Vacant" THEN iter_next_back_keeps_count(it1, es)
             ELSE [iter |-> it1,
                   ret |-> YieldRet(index, entry.remaining, entry.item)]

RECURSIVE iter_next_back(_, _)
iter_next_back(it, es) ==
    IF it.lo >= it.hi THEN [iter |-> it, ret |-> IterNone]
    ELSE LET index == it.hi - 1
             entry == At(es, index)
             it1 == [it EXCEPT !.hi = @ - 1]
             remaining1 == usize_sub(it1.remaining, 1)
         IN  IF entry.tag = "Vacant" THEN iter_next_back(it1, es)
             ELSE IF remaining1 = Overflow
             THEN [iter |-> it1, ret |-> IterPanic]
             ELSE [iter |-> [it1 EXCEPT !.remaining = remaining1],
                   ret |-> YieldRet(index, entry.remaining, entry.item)]

\* ExactSizeIterator::len
iter_len(it) == it.remaining

\* A full traversal: what next (or next_back when back) returns, call after
\* call, up to the first None; a panic ends the traversal and is its last
\* element.
RECURSIVE Drain(_, _, _)
Drain(it, es, back) ==
    LET r == IF back THEN iter_next_back(it, es) ELSE iter_next(it, es)
    IN  IF r.ret.kind = "None" THEN <<>>
        ELSE IF r.ret.kind = "Panic" THEN <<r.ret>>
        ELSE <<r.ret>> \o Drain(r.iter, es, back)

Forward(s) == Drain(iter_new(s), s.entries, FALSE)
Backward(s) == Drain(iter_new(s), s.entries, TRUE)

Reverse(seq) == [i \in 1 .. Len(seq) |-> seq[Len(seq) + 1 - i]]

----------------------------------------------------------------------------
\* Observers

\* The stash as the methods see it.
self ==
    [free |-> free, len_items |-> len_items, len_occupied |-> len_occupied,
     entries |-> entries]

\* A call: the method and its key (NoKey when it takes none).
Call(op, key) == [op |-> op, key |-> key]

RECURSIVE SumRemaining(_)
SumRemaining(es) ==
    IF es = <<>> THEN 0
    ELSE (IF Head(es).tag = "Occupied" THEN Head(es).remaining ELSE 0)
         + SumRemaining(Tail(es))

NumOccupied(es) == Cardinality({i \in 0 .. Len(es) - 1 : IsOccupied(es, i)})

\* The free list: the slots reached from index by following the next_free
\* links, for at most fuel steps, and where the walk stopped (the index that
\* is no Vacant slot of the table, or the one the fuel ran out at).
RECURSIVE FreeList(_, _, _)
FreeList(es, index, fuel) ==
    IF fuel = 0 \/ ~IsVacant(es, index)
    THEN [visited |-> <<>>, stop |-> index]
    ELSE LET rest == FreeList(es, At(es, index).next_free, fuel - 1)
         IN  [visited |-> <<index>> \o rest.visited, stop |-> rest.stop]

RECURSIVE Without(_, _)
Without(seq, k) ==
    IF seq = <<>> THEN <<>>
    ELSE IF Head(seq) = k THEN Without(Tail(seq), k)
    ELSE <<Head(seq)>> \o Without(Tail(seq), k)

\* The slots vacated and not reused since, newest first, once call c has
\* taken the stash to r.self and returned r.ret. Emptying the stash forgets
\* them.
NextVacated(c, r) ==
    IF r.ret.kind = "Panic" THEN vacated
    ELSE IF c.op = "clear" THEN <<>>
    ELSE IF c.op = "put" THEN Without(vacated, r.ret.n)
    ELSE IF /\ c.op \in {"take_one", "take_all"}
            /\ r.ret.kind = "Some"
            /\ get(r.self, c.key) = NoneRet
    THEN IF NumOccupied(r.self.entries) = 0 THEN <<>>
         ELSE <<c.key>> \o vacated
    ELSE vacated

\* The most entries occupied at once since the last reset, once call c has
\* taken the stash to r.self: clear and a take that empties the stash reset.
NextPeak(c, r) ==
    IF r.ret.kind = "Panic" THEN peak
    ELSE IF c.op = "clear" THEN 0
    ELSE IF c.op \in {"take_one", "take_all"} /\ is_empty(r.self) THEN 0
    ELSE IF len(r.self) > peak THEN len(r.self)
    ELSE peak

\* The scenario: put A, B, C into an empty stash, take_all(1), take_all(0),
\* put D, put E. scen holds what its calls returned so far, and ScenOff once
\* the calls since the stash was last empty are not the scenario's.
ScenOff == <<NoneRet>>
ScenCalls ==
    <<Call("put", NoKey), Call("put", NoKey), Call("put", NoKey),
      Call("take_all", 1), Call("take_all", 0),
      Call("put", NoKey), Call("put", NoKey)>>

NextScen(c, r) ==
    IF /\ scen # ScenOff
       /\ Len(scen) < Len(ScenCalls)
       /\ r.ret.kind # "Panic"
       /\ c = ScenCalls[Len(scen) + 1]
    THEN Append(scen, r.ret)
    ELSE IF r.ret.kind # "Panic" /\ r.self = new THEN <<>>
    ELSE ScenOff

----------------------------------------------------------------------------
\* The state machine

Init ==
    /\ entries = new.entries
    /\ free = new.free
    /\ len_items = new.len_items
    /\ len_occupied = new.len_occupied
    /\ overflow_checks \in BOOLEAN
    /\ aborted = FALSE
    /\ vacated = <<>>
    /\ scen = <<>>
    /\ iter = NoIter
    /\ yielded = {}
    /\ fused = FALSE
    /\ peak = 0

\* The table can take one more entry: put reuses a slot, or appends below
\* the largest table the memory holds.
CanGrow == free = Len(entries) => Len(entries) < MaxEntries

\* Call c takes the stash to r.self and returns r.ret. The stash is not
\* borrowed by an iterator.
Apply(c, r) ==
    /\ ~iter.live
    /\ entries' = r.self.entries
    /\ free' = r.self.free
    /\ len_items' = r.self.len_items
    /\ len_occupied' = r.self.len_occupied
    /\ aborted' = (r.ret.kind = "Panic")
    /\ vacated' = NextVacated(c, r)
    /\ scen' = NextScen(c, r)
    /\ peak' = NextPeak(c, r)
    /\ UNCHANGED <<overflow_checks, iter, yielded, fused>>

Get ==
    \E key \in Keys :
        /\ ~aborted
        /\ Apply(Call("get", key), [self |-> self, ret |-> get(self, key)])

GetMut ==
    \E key \in Keys, w \in Items :
        /\ ~aborted
        /\ Apply(Call("get_mut", key), get_mut(self, key, w))

Put ==
    \E amount \in Amounts, item \in Items :
        /\ ~aborted
        /\ CanGrow
        /\ Apply(Call("put", NoKey), put(self, amount, item))

Clear ==
    /\ ~aborted
    /\ Apply(Call("clear", NoKey), [self |-> clear(self), ret |-> UnitRet])

TakeAll ==
    \E key \in Keys :
        /\ ~aborted
        /\ Apply(Call("take_all", key), take_all(self, key))

Bump ==
    \E key \in Keys, amount \in Deltas :
        /\ ~aborted
        /\ Apply(Call("bump", key), bump(self, key, amount))

TakeOne ==
    \E key \in Keys :
        /\ ~aborted
        /\ Apply(Call("take_one", key), take_one(self, key))

Next ==
    \/ Get
    \/ GetMut
    \/ Put
    \/ Clear
    \/ TakeAll
    \/ Bump
    \/ TakeOne

Spec == Init /\ [][Next]_vars

\* The stash under iteration: iter() borrows it, next and next_back drive
\* the iterator from either end.
IterStep(r) ==
    /\ iter' = r.iter
    /\ yielded' = IF r.ret.kind = "Some" THEN yielded \cup {r.ret.key}
                  ELSE yielded
    /\ fused' = (fused \/ r.ret.kind = "None")
    /\ aborted' = (r.ret.kind = "Panic")
    /\ UNCHANGED <<entries, free, len_items, len_occupied, overflow_checks,
                   vacated, scen, peak>>

IterNew ==
    /\ ~aborted
    /\ ~iter.live
    /\ iter' = iter_new(self)
    /\ UNCHANGED <<entries, free, len_items, len_occupied, overflow_checks,
                   aborted, vacated, scen, yielded, fused, peak>>

IterNext ==
    /\ ~aborted
    /\ iter.live
    /\ IterStep(iter_next(iter, entries))

IterNextBack ==
    /\ ~aborted
    /\ iter.live
    /\ IterStep(iter_next_back(iter, entries))

NextIter ==
    \/ Put
    \/ Clear
    \/ TakeAll
    \/ Bump
    \/ TakeOne
    \/ IterNew
    \/ IterNext
    \/ IterNextBack

SpecIter == Init /\ [][NextIter]_vars

----------------------------------------------------------------------------
\* The claims. A claim about what a call does is stated over every state the
\* stash can reach and every argument: the call's result is the method's
\* operator applied to the stash.

Completed(r) == r.ret.kind # "Panic"

TakeResults(s, key) == {take_one(s, key), take_all(s, key)}

\* C1: in every state reached by put, take_one, take_all, bump and clear,
\* len_items() is the sum of the remaining counts of the Occupied entries.
C1_LenItemsIsSumOfRemaining ==
    ~aborted => len_items = SumRemaining(entries)

\* C2: in every state reached by put, take_one, take_all, bump and clear,
\* len_items() >= len().
C2_LenItemsAtLeastLen ==
    ~aborted => len_items >= len(self)

\* C3: a take_one or take_all that leaves no occupied entry leaves the stash
\* reset: no entries, free cursor 0, len_items() = 0, len() = 0, and the next
\* put returns Key(0).
C3_EmptyingResets ==
    ~aborted =>
        \A key \in Keys : \A r \in TakeResults(self, key) :
            (Completed(r) /\ NumOccupied(r.self.entries) = 0) =>
                /\ r.self.entries = <<>>
                /\ r.self.free = 0
                /\ r.self.len_items = 0
                /\ len(r.self) = 0
                /\ \A amount \in Amounts, item \in Items :
                       put(r.self, amount, item).ret = KeyRet(0)

\* C3 witness: a table of several slots whose only occupied one is taken.
C3_Witness ==
    /\ ~aborted
    /\ Len(entries) >= 2
    /\ \E key \in Keys :
           /\ IsOccupied(entries, key)
           /\ At(entries, key).remaining >= 2
           /\ Completed(take_all(self, key))
           /\ NumOccupied(take_all(self, key).self.entries) = 0

\* C4: put returns the most recently vacated slot that was not reused since,
\* and the table length when no vacated slot is left.
C4_LastVacatedFirst ==
    ~aborted =>
        \A amount \in Amounts, item \in Items :
            LET r == put(self, amount, item)
            IN  Completed(r) =>
                    r.ret = KeyRet(IF vacated # <<>> THEN Head(vacated)
                                   ELSE Len(entries))

\* C4 witness: two vacated slots, the lower one vacated last, and a put that
\* reuses it.
C4_Witness ==
    /\ ~aborted
    /\ Len(vacated) >= 2
    /\ Head(vacated) < vacated[2]
    /\ \E amount \in Amounts, item \in Items :
           put(self, amount, item).ret = KeyRet(Head(vacated))

\* C5 as stated: after put A, B, C into an empty stash, take_all(1) and
\* take_all(0), the next two puts return key 1 (D) and key 0 (E).
C5_Original ==
    /\ (scen # ScenOff /\ Len(scen) >= 6) => scen[6] = KeyRet(1)
    /\ (scen # ScenOff /\ Len(scen) >= 7) => scen[7] = KeyRet(0)

\* C5 amended: after put A, B, C into an empty stash (keys 0, 1, 2),
\* take_all(1) and take_all(0), the next two puts return key 0 (D) and
\* key 1 (E).
C5_LastVacatedReusedFirst ==
    /\ (scen # ScenOff /\ Len(scen) >= 3) =>
           /\ scen[1] = KeyRet(0)
           /\ scen[2] = KeyRet(1)
           /\ scen[3] = KeyRet(2)
    /\ (scen # ScenOff /\ Len(scen) >= 6) => scen[6] = KeyRet(0)
    /\ (scen # ScenOff /\ Len(scen) >= 7) => scen[7] = KeyRet(1)

\* C5 witness: the scenario has run to its end.
C5_Witness ==
    /\ scen # ScenOff
    /\ Len(scen) = 7
    /\ scen[4].kind = "Some"
    /\ scen[5].kind = "Some"

\* C6: always, while slot k is occupied, no put and no take_one, take_all,
\* bump or get_mut on another key changes what get(k) returns, and put does
\* not return k.
C6_OtherKeysLeaveSlotAlone ==
    [](~aborted =>
        LET occupied == {k \in Keys : IsOccupied(entries, k)}
            Same(s, j) == \A k \in occupied \ {j} : get(s, k) = get(self, k)
        IN  /\ \A amount \in Amounts, item \in Items :
                   LET r == put(self, amount, item)
                   IN  /\ Same(r.self, NoKey)
                       /\ \A k \in occupied : r.ret # KeyRet(k)
            /\ \A j \in Keys :
                   /\ Same(take_one(self, j).self, j)
                   /\ Same(take_all(self, j).self, j)
                   /\ \A amount \in Deltas :
                          Same(bump(self, j, amount).self, j)
                   /\ \A w \in Items : Same(get_mut(self, j, w).self, j))

\* C6 witness: slot k is occupied beside a vacant slot and another occupied
\* slot that a take_all vacates.
C6_Witness ==
    /\ ~aborted
    /\ \E k \in Keys, j \in Keys, v \in Keys :
           /\ k # j
           /\ IsOccupied(entries, k)
           /\ IsOccupied(entries, j)
           /\ IsVacant(entries, v)
           /\ take_all(self, j).ret.kind = "Some"
           /\ get(take_all(self, j).self, j) = NoneRet
           /\ get(take_all(self, j).self, k) = get(self, k)

\* C7 as stated: take_one on an occupied slot with count r returns (r - 1,
\* item) and lowers len_items() by 1; for r > 1 the slot stays occupied with
\* count r - 1 and len() is unchanged, for r = 1 the slot is vacated and
\* len() drops by 1.
C7_TakeOneDecrements ==
    ~aborted =>
        \A k \in Keys :
            IsOccupied(entries, k) =>
                LET e == At(entries, k)
                    r == take_one(self, k)
                IN  /\ r.ret = SomeRet(e.remaining - 1, e.item)
                    /\ r.self.len_items = len_items - 1
                    /\ e.remaining > 1 =>
                           /\ get(r.self, k) = SomeRet(e.remaining - 1, e.item)
                           /\ len(r.self) = len(self)
                    /\ e.remaining = 1 =>
                           /\ get(r.self, k) = NoneRet
                           /\ len(r.self) = len(self) - 1
                           /\ take_one(r.self, k).ret = NoneRet

\* C8 as stated: take_all on an occupied slot returns (remaining, item), the
\* count being the one bumps and take_one calls have left; the slot is then
\* vacant and the head of the free list (unless the stash was emptied and so
\* reset), len() has dropped by 1 and len_items() by the returned count.
C8_TakeAllRemoves ==
    ~aborted =>
        \A k \in Keys :
            IsOccupied(entries, k) =>
                LET e == At(entries, k)
                    r == take_all(self, k)
                IN  /\ r.ret = SomeRet(e.remaining, e.item)
                    /\ get(r.self, k) = NoneRet
                    /\ r.self.entries # <<>> =>
                           /\ IsVacant(r.self.entries, k)
                           /\ r.self.free = k
                    /\ len(r.self) = len(self) - 1
                    /\ r.self.len_items = len_items - r.ret.n

\* C9: a bump(k, d) that returns on an occupied slot returns the count stored
\* before, leaves that count plus d with the same item, and changes neither
\* len() nor the free cursor nor any other slot; bump(k, 0) changes nothing.
C9_BumpAddsToCount ==
    ~aborted =>
        \A k \in Keys, d \in Deltas :
            LET r == bump(self, k, d)
            IN  (IsOccupied(entries, k) /\ Completed(r)) =>
                    LET e == At(entries, k)
                    IN  /\ r.ret = SomeRet(e.remaining, NoItem)
                        /\ get(r.self, k) = SomeRet(e.remaining + d, e.item)
                        /\ len(r.self) = len(self)
                        /\ r.self.free = free
                        /\ Len(r.self.entries) = Len(entries)
                        /\ \A j \in 0 .. Len(entries) - 1 :
                               j # k => At(r.self.entries, j) = At(entries, j)
                        /\ d = 0 => r.self = self

\* C9 witness: a slot with a count above 1 and an item, beside a vacant slot,
\* is bumped by a non-zero amount.
C9_Witness ==
    /\ ~aborted
    /\ \E k \in Keys, v \in Keys, d \in Deltas :
           /\ d > 0
           /\ IsVacant(entries, v)
           /\ IsOccupied(entries, k)
           /\ At(entries, k).remaining >= 2
           /\ bump(self, k, d).ret = SomeRet(At(entries, k).remaining, NoItem)
           /\ get(bump(self, k, d).self, k).n = At(entries, k).remaining + d

\* C10: get, get_mut, take_all, take_one and bump with a key that is out of
\* range or names a Vacant slot return None and leave the entries (the
\* links of the vacant slots too), the free cursor, len_items and
\* len_occupied as they were.
C10_MissesChangeNothing ==
    ~aborted =>
        \A k \in Keys :
            ~IsOccupied(entries, k) =>
                LET miss == [self |-> self, ret |-> NoneRet]
                IN  /\ get(self, k) = NoneRet
                    /\ \A w \in Items : get_mut(self, k, w) = miss
                    /\ take_all(self, k) = miss
                    /\ take_one(self, k) = miss
                    /\ \A d \in Deltas : bump(self, k, d) = miss

\* C10 witness: a vacant slot whose link differs from the free cursor, and a
\* key beyond a non-empty table.
C10_Witness ==
    /\ ~aborted
    /\ Len(entries) >= 1
    /\ Len(entries) \in Keys
    /\ take_one(self, Len(entries)).ret = NoneRet
    /\ \E k \in Keys :
           /\ IsVacant(entries, k)
           /\ At(entries, k).next_free # free
           /\ take_all(self, k).ret = NoneRet

\* C11: a put(n, x) that returns gives a key k for which get(k) is then
\* (n, x), and len() has grown by 1 and len_items() by n.
C11_PutThenGet ==
    ~aborted =>
        \A amount \in Amounts, item \in Items :
            LET r == put(self, amount, item)
            IN  Completed(r) =>
                    /\ r.ret.kind = "Key"
                    /\ get(r.self, r.ret.n) = SomeRet(amount, item)
                    /\ len(r.self) = len(self) + 1
                    /\ r.self.len_items = len_items + amount

\* C11 witness: a put of several items that reuses a vacated slot below the
\* end of the table.
C11_Witness ==
    /\ ~aborted
    /\ \E amount \in Amounts, item \in Items :
           LET r == put(self, amount, item)
           IN  /\ amount >= 2
               /\ Completed(r)
               /\ IsVacant(entries, r.ret.n)
               /\ r.ret.n + 1 < Len(entries)
               /\ get(r.self, r.ret.n) = SomeRet(amount, item)

\* C12: a full forward traversal of iter() yields len() triples, in strictly
\* ascending key order and of occupied slots only, each triple being the key
\* with what get(key) returns; a full reverse traversal yields the same
\* triples in the reverse order.
C12_TraversalMatchesGet ==
    ~aborted =>
        LET f == Forward(self)
            b == Backward(self)
        IN  /\ Len(f) = len(self)
            /\ \A i \in 1 .. Len(f) :
                   /\ f[i].kind = "Some"
                   /\ IsOccupied(entries, f[i].key)
                   /\ get(self, f[i].key) = SomeRet(f[i].n, f[i].item)
            /\ \A i \in 1 .. Len(f) - 1 : f[i].key < f[i + 1].key
            /\ b = Reverse(f)

\* C12 witness: a traversal of two occupied slots with different counts and
\* items around a vacant slot.
C12_Witness ==
    /\ ~aborted
    /\ Len(entries) = 3
    /\ IsVacant(entries, 1)
    /\ Len(Forward(self)) = 2
    /\ Forward(self)[1].key = 0
    /\ Forward(self)[2].key = 2
    /\ Forward(self)[1].n # Forward(self)[2].n
    /\ Forward(self)[1].item # Forward(self)[2].item
    /\ Backward(self)[1].key = 2

\* C13: for an iterator driven by any interleaving of next and next_back,
\* len() is the number of occupied entries not yet yielded, no call yields
\* an entry a second time or takes the counter below zero, and once a call
\* has returned None every call returns None with len() = 0.
C13_IterLenExact ==
    (iter.live /\ ~aborted) =>
        /\ iter_len(iter) = NumOccupied(entries) - Cardinality(yielded)
        /\ \A k \in yielded : IsOccupied(entries, k)
        /\ \A back \in BOOLEAN :
               LET r == IF back THEN iter_next_back(iter, entries)
                        ELSE iter_next(iter, entries)
               IN  /\ r.ret.kind # "Panic"
                   /\ r.ret.kind = "Some" =>
                          /\ r.ret.key \notin yielded
                          /\ iter_len(iter) >= 1
                   /\ fused =>
                          /\ r.ret = IterNone
                          /\ iter_len(iter) = 0

\* C13 witness: an iterator driven from both ends that has yielded every
\* occupied entry and then returned None.
C13_Witness ==
    /\ iter.live
    /\ ~aborted
    /\ fused
    /\ iter.lo >= 1
    /\ iter.hi < Len(entries)
    /\ Cardinality(yielded) >= 2
    /\ iter_len(iter) = 0

\* C14: while a slot is vacated and not reused, get, take_one, take_all and
\* bump through its key return None; the put that reuses the slot vacated
\* last returns its key, and get, take_one, take_all and bump through that
\* key then act on the element the put stored.
C14_StaleKeyAddressesNewOccupant ==
    (~aborted /\ vacated # <<>>) =>
        /\ \A i \in 1 .. Len(vacated) :
               LET k == vacated[i]
               IN  /\ get(self, k) = NoneRet
                   /\ take_one(self, k).ret = NoneRet
                   /\ take_all(self, k).ret = NoneRet
                   /\ \A d \in Deltas : bump(self, k, d).ret = NoneRet
        /\ \A amount \in Amounts, item \in Items :
               LET k == Head(vacated)
                   r == put(self, amount, item)
               IN  Completed(r) =>
                       /\ r.ret = KeyRet(k)
                       /\ get(r.self, k) = SomeRet(amount, item)
                       /\ take_one(r.self, k).ret = SomeRet(amount - 1, item)
                       /\ take_all(r.self, k).ret = SomeRet(amount, item)
                       /\ \A d \in Deltas :
                              LET b == bump(r.self, k, d)
                              IN  Completed(b) =>
                                      /\ b.ret = SomeRet(amount, NoItem)
                                      /\ get(b.self, k) =
                                             SomeRet(amount + d, item)

\* C14 witness: two slots vacated below the end of the table; a put of
\* several items reuses the one vacated last, and a bump through the old
\* key raises the new count.
C14_Witness ==
    /\ ~aborted
    /\ Len(vacated) >= 2
    /\ Head(vacated) + 1 < Len(entries)
    /\ \E amount \in Amounts, item \in Items :
           LET r == put(self, amount, item)
           IN  /\ amount >= 2
               /\ r.ret = KeyRet(Head(vacated))
               /\ bump(r.self, Head(vacated), 1).ret = SomeRet(amount, NoItem)

\* C15: put(n, x) aborts exactly when len_items() + n exceeds the maximum
\* usize value, and otherwise returns a key.
C15_PutAbortsOnTotalOverflow ==
    (~aborted /\ CanGrow) =>
        \A amount \in Amounts, item \in Items :
            LET r == put(self, amount, item)
            IN  /\ r.ret.kind = "Panic" <=> len_items + amount > UsizeMax
                /\ r.ret.kind # "Panic" => r.ret.kind = "Key"

\* C15 witness: one item is stored, a put of the maximum count aborts and a
\* put of one less returns.
C15_Witness ==
    /\ ~aborted
    /\ CanGrow
    /\ len_items = 1
    /\ len(self) = 1
    /\ \E item \in Items :
           /\ put(self, UsizeMax, item).ret = PanicRet
           /\ put(self, UsizeMax - 1, item).ret.kind = "Key"

\* C16: in every state a returning call leaves, len() is the number of
\* Occupied entries of the table, and so at most the table length.
C16_LenIsNumberOfOccupied ==
    ~aborted =>
        /\ len(self) = NumOccupied(entries)
        /\ len(self) <= len_entries(self)

\* C16 witness: a table with occupied and vacant slots, its counts changed
\* by bump and take_one.
C16_Witness ==
    /\ ~aborted
    /\ len(self) = 2
    /\ len_entries(self) = 3
    /\ len_items # SumRemaining(entries)
    /\ \E v \in Keys : IsVacant(entries, v)

\* C17: clear() on any reachable stash leaves the entries, the free cursor,
\* len_items and len_occupied of a new stash: every key yields None and the
\* next put returns Key(0).
C17_ClearGivesNewStash ==
    LET cleared == clear(self)
    IN  /\ cleared = new
        /\ \A k \in Keys :
               /\ get(cleared, k) = NoneRet
               /\ take_one(cleared, k) = [self |-> new, ret |-> NoneRet]
               /\ take_all(cleared, k) = [self |-> new, ret |-> NoneRet]
        /\ \A amount \in Amounts, item \in Items :
               put(cleared, amount, item).ret = KeyRet(0)

\* C17 witness: clear() on a table of three slots, one of them vacant, whose
\* free cursor is not 0.
C17_Witness ==
    /\ ~aborted
    /\ len_entries(self) = 3
    /\ len(self) = 2
    /\ free # 0
    /\ IsVacant(entries, free)
    /\ clear(self) # self

\* C18: in every state a returning call leaves, the free cursor is at most
\* the table length; when it is the table length no entry is Vacant, and
\* otherwise the entry at the cursor is Vacant, so put takes neither the
\* out-of-bounds access nor its unreachable!() arm.
C18_FreeCursorAtVacantOrEnd ==
    ~aborted =>
        /\ free <= len_entries(self)
        /\ free = len_entries(self) =>
               \A index \in Keys : ~IsVacant(entries, index)
        /\ free < len_entries(self) => IsVacant(entries, free)
        /\ CanGrow =>
               \A amount \in Amounts, item \in Items :
                   claim_slot(self, amount, item).ret.kind = "Key"

\* C18 witness: two vacant slots, the cursor at one of them and linked to
\* the other, and a put that claims the slot at the cursor.
C18_Witness ==
    /\ ~aborted
    /\ free < len_entries(self)
    /\ IsVacant(entries, free)
    /\ IsVacant(entries, At(entries, free).next_free)
    /\ \E amount \in Amounts, item \in Items :
           /\ claim_slot(self, amount, item).ret = KeyRet(free)
           /\ claim_slot(self, amount, item).self.free =
                  At(entries, free).next_free

\* C19 as stated: a put, bump, take_one or take_all that aborts leaves the
\* entries, the free cursor, len_items and len_occupied as they were before
\* the call.
C19_AbortChangesNothing ==
    ~aborted =>
        /\ CanGrow =>
               \A amount \in Amounts, item \in Items :
                   LET r == put(self, amount, item)
                   IN  ~Completed(r) => r.self = self
        /\ \A k \in Keys :
               /\ \A d \in Deltas :
                      LET r == bump(self, k, d)
                      IN  ~Completed(r) => r.self = self
               /\ \A r \in TakeResults(self, k) :
                      ~Completed(r) => r.self = self

\* C20: get and get_mut on an occupied slot return its count and item; the
\* call changes nothing, and the caller of get_mut can write the item of
\* that slot only: every count, every other entry, the free cursor,
\* len_items and len_occupied stay as they were.
C20_GetChangesNothing ==
    ~aborted =>
        \A k \in Keys :
            IsOccupied(entries, k) =>
                LET e == At(entries, k)
                IN  /\ get(self, k) = SomeRet(e.remaining, e.item)
                    /\ \A w \in Items :
                           LET r == get_mut(self, k, w)
                           IN  /\ r.ret = SomeRet(e.remaining, e.item)
                               /\ r.self =
                                      [self EXCEPT !.entries[k + 1].item = w]
                               /\ w = e.item => r.self = self

\* C20 witness: get_mut on a slot holding several items beside a vacant
\* slot, the caller writing another item.
C20_Witness ==
    /\ ~aborted
    /\ \E k \in Keys, v \in Keys, w \in Items :
           /\ IsVacant(entries, v)
           /\ IsOccupied(entries, k)
           /\ At(entries, k).remaining >= 2
           /\ w # At(entries, k).item
           /\ get_mut(self, k, w).ret = get(self, k)
           /\ get(get_mut(self, k, w).self, k) =
                  SomeRet(At(entries, k).remaining, w)

\* C21: in every state a returning call leaves, following the next_free links
\* from the free cursor visits every Vacant entry exactly once and ends at
\* the table length: no cycle, no Occupied entry on the list, no Vacant
\* entry outside it.
C21_FreeListCoversVacant ==
    ~aborted =>
        LET list == FreeList(entries, free, len_entries(self) + 1)
            visited == {list.visited[i] : i \in 1 .. Len(list.visited)}
        IN  /\ list.stop = len_entries(self)
            /\ Cardinality(visited) = Len(list.visited)
            /\ visited = {index \in Keys : IsVacant(entries, index)}

\* C21 witness: a free list of two slots whose order is not the order of
\* the table, beside an occupied slot.
C21_Witness ==
    /\ ~aborted
    /\ len(self) >= 1
    /\ LET list == FreeList(entries, free, len_entries(self) + 1)
       IN  /\ Len(list.visited) = 2
           /\ list.visited[1] < list.visited[2]
           /\ list.stop = len_entries(self)

\* C22 as stated: take_one and take_all on an occupied slot never abort: the
\* subtraction from len_items (of 1 in take_one, of the entry's remaining
\* count in take_all) does not go below zero.
C22_TakeNeverAborts ==
    ~aborted =>
        \A k \in Keys :
            IsOccupied(entries, k) =>
                /\ Completed(take_one(self, k))
                /\ Completed(take_all(self, k))
                /\ len_items >= 1
                /\ len_items >= At(entries, k).remaining

\* C23: put appends only to a table with no Vacant entry, so the table is
\* never longer than the most entries occupied at once since the last reset
\* (clear, or a take that emptied the stash).
C23_TableGrowsOnlyWhenFull ==
    ~aborted =>
        /\ len_entries(self) <= peak
        /\ \A amount \in Amounts, item \in Items :
               LET r == put(self, amount, item)
               IN  len_entries(r.self) > len_entries(self) =>
                       \A index \in 0 .. len_entries(self) - 1 :
                           IsOccupied(entries, index)

\* C23 witness: a table of two slots, both occupied at some time since the
\* last reset and one vacant now; the put reuses it and the table keeps its
\* length.
C23_Witness ==
    /\ ~aborted
    /\ peak = 2
    /\ len_entries(self) = 2
    /\ len(self) = 1
    /\ vacated # <<>>
    /\ \E amount \in Amounts, item \in Items :
           LET r == put(self, amount, item)
           IN  /\ Completed(r)
               /\ len_entries(r.self) = 2

====
